---- MODULE Spec2Model ----
(***************************************************************************)
(* Model of the AirLight forecasting service, Service_IA/app_improved.py:  *)
(* the shared AirQualityPredictor (scalers, models, ensemble weights), its *)
(* train_model and predict methods, and the /predict and /model/retrain    *)
(* endpoints that drive it.                                                *)
(*                                                                         *)
(* Units.  A PM2.5 value held as a float is an integer number of          *)
(* thousandths of a microgram per cubic metre (12.05 is 12050); the        *)
(* reported predicted_pm25 is round(x, 2), in hundredths.  predicted_aqi   *)
(* is in tenths (round(x, 1)), confidence in thousandths (round(x, 3)),    *)
(* timestamps in whole hours.  Validation scores, ensemble weights, scaled *)
(* predictions and AQI values are exact rationals <<num, den>>, den > 0.   *)
(* In a feature row hour is in thousandths of an hour, since the           *)
(* percentile clip can leave it fractional, and the rolling means          *)
(* pm25_ma_3 and pm25_ma_6 are exact rationals of thousandths.             *)
(***************************************************************************)
EXTENDS Integers, Sequences, FiniteSets, TLC

VARIABLES
    models,            \* predictor.models: variant name -> estimator state
    feature_scaler,    \* predictor.feature_scaler
    target_scaler,     \* predictor.target_scaler
    ensemble_weights,  \* predictor.ensemble_weights
    req,               \* the call being served, with everything the environment decides
    resp,              \* what the call returned
    prev,              \* the predictor as it was when the call started
    nCalls,            \* calls served so far
    aqiIn,             \* calculate_aqi: the pair of PM2.5 values under comparison
    aqiOut,            \* calculate_aqi: the two results
    threads,           \* concurrent requests: each thread's request, position and reads
    arg,               \* a function of the data pipeline on its own: its input
    result             \* ... and what it returned

vars == <<models, feature_scaler, target_scaler, ensemble_weights,
          req, resp, prev, nCalls, aqiIn, aqiOut, threads, arg, result>>

---------------------------------------------------------------------------
(* Program constants *)

min_data_points == 48
n_splits == 3
MaxHours == 24
PmCeiling == 1000000
AqiCeiling == 500
DefaultPm25 == 25000
ConfFallback == 300
ConfFloor == 300
ConfCeiling == 900
ConfStart == 700
ConfDecay == 50

(* Bounds of the model *)

MaxCalls == 2
ExtraHours == 1
ExtraObs == 1

---------------------------------------------------------------------------
(* Arithmetic helpers *)

Min2(a, b) == IF a <= b THEN a ELSE b
Max2(a, b) == IF a >= b THEN a ELSE b
Abs(x) == IF x < 0 THEN -x ELSE x

RECURSIVE Gcd(_, _)
Gcd(a, b) == IF b = 0 THEN a ELSE Gcd(b, a % b)

\* Python's round() of num/den (den > 0) to an integer: nearest, ties to even.
RoundDiv(num, den) ==
    LET q == num \div den
        r == num % den
    IN  IF 2 * r < den THEN q
        ELSE IF 2 * r > den THEN q + 1
        ELSE IF q % 2 = 0 THEN q ELSE q + 1

\* Rationals <<num, den>> in lowest terms with den > 0.
Rat(n, d) ==
    LET g == Gcd(Abs(n), Abs(d))
        s == IF d < 0 THEN -1 ELSE 1
    IN  <<(s * n) \div g, (s * d) \div g>>

RatAdd(a, b) == Rat(a[1] * b[2] + b[1] * a[2], a[2] * b[2])
RatMul(a, b) == Rat(a[1] * b[1], a[2] * b[2])
RatDiv(a, b) == Rat(a[1] * b[2], a[2] * b[1])

\* a <= b, comparing whole parts first so that no large product is formed.
RatLe(a, b) ==
    LET qa == a[1] \div a[2]
        qb == b[1] \div b[2]
    IN  IF a[2] = b[2] THEN a[1] <= b[1]
        ELSE IF qa # qb THEN qa < qb
        ELSE (a[1] % a[2]) * b[2] <= (b[1] % b[2]) * a[2]

RatLt(a, b) == ~RatLe(b, a)

RECURSIVE SumSeq(_)
SumSeq(s) == IF s = <<>> THEN 0 ELSE Head(s) + SumSeq(Tail(s))

---------------------------------------------------------------------------
(* calculate_aqi *)

\* (bp_low, bp_high, aqi_low, aqi_high), PM2.5 bounds in thousandths.
breakpoints ==
    << <<0, 12000, 0, 50>>,
       <<12100, 35400, 51, 100>>,
       <<35500, 55400, 101, 150>>,
       <<55500, 150400, 151, 200>>,
       <<150500, 250400, 201, 300>>,
       <<250500, 350400, 301, 400>>,
       <<350500, 500400, 401, 500>> >>

\* The AQI of a PM2.5 value, as the rational the code's float stands for.
\* (The bare except of the code, returning 100, needs a non-numeric
\* argument; every caller passes a number.)
calculate_aqi(pm25) ==
    LET p == Max2(0, Min2(pm25, PmCeiling))
        hits == {i \in DOMAIN breakpoints :
                    breakpoints[i][1] <= p /\ p <= breakpoints[i][2]}
    IN  IF hits = {} THEN <<AqiCeiling, 1>>
        ELSE LET i == CHOOSE j \in hits : \A k \in hits : j <= k
                 bp == breakpoints[i]
                 den == bp[2] - bp[1]
                 num == (bp[4] - bp[3]) * (p - bp[1]) + bp[3] * den
             IN  IF num < 0 THEN <<0, 1>>
                 ELSE IF num > AqiCeiling * den THEN <<AqiCeiling, 1>>
                 ELSE <<num, den>>

\* round(aqi, 1), in tenths.
RoundAqi(aqi) == RoundDiv(10 * aqi[1], aqi[2])

---------------------------------------------------------------------------
(* The data pipeline: clean_infinite_values, validate_input_data,          *)
(* prepare_features and what train_model and predict take from them.       *)
(* A column is a sequence of floats, each a number (in thousandths) or one *)
(* of NaN, +inf, -inf.  An interpolated percentile is cut to the           *)
(* thousandth.                                                             *)

Num(v) == [k |-> "num", v |-> v]
NaN == [k |-> "nan", v |-> 0]
PosInf == [k |-> "inf", v |-> 0]
NegInf == [k |-> "-inf", v |-> 0]

IsNum(x) == x.k = "num"

\* The finite values of a column, ascending.
SortedFinite(col) ==
    LET f == SelectSeq(col, IsNum)
    IN  SortSeq([i \in DOMAIN f |-> f[i].v], LAMBDA a, b : a < b)

\* Series.quantile(pct / 100) of the ascending non-empty s: linear
\* interpolation between the two nearest ranks.
Quantile(s, pct) ==
    LET pos == (Len(s) - 1) * pct
        lo == pos \div 100 + 1
        rem == pos % 100
    IN  IF rem = 0 THEN s[lo]
        ELSE s[lo] + ((s[lo + 1] - s[lo]) * rem) \div 100

\* Series.median() of the ascending non-empty s.
Median(s) ==
    LET n == Len(s)
    IN  IF n % 2 = 1 THEN s[(n + 1) \div 2]
        ELSE (s[n \div 2] + s[n \div 2 + 1]) \div 2

\* Line 55: df.replace([np.inf, -np.inf], np.nan)
ReplaceInf(col) ==
    [i \in DOMAIN col |-> IF col[i].k \in {"inf", "-inf"} THEN NaN ELSE col[i]]

\* Lines 59-63: clip to the 1st and 99th percentiles, when they exist.
ClipQuantiles(col) ==
    LET s == SortedFinite(col)
    IN  IF s = <<>> THEN col
        ELSE LET q1 == Quantile(s, 1)
                 q99 == Quantile(s, 99)
             IN  [i \in DOMAIN col |->
                    IF IsNum(col[i]) THEN Num(Min2(Max2(col[i].v, q1), q99))
                    ELSE col[i]]

\* Lines 66-73: NaN filled with the median, with 0 when the median is NaN.
FillMedian(col) ==
    LET s == SortedFinite(col)
        median_val == IF s = <<>> THEN 0 ELSE Median(s)
    IN  [i \in DOMAIN col |-> IF col[i].k = "nan" THEN Num(median_val) ELSE col[i]]

\* Lines 76-79: whatever is still not finite becomes 0.
FinalCheck(col) ==
    [i \in DOMAIN col |-> IF IsNum(col[i]) THEN col[i] ELSE Num(0)]

\* A cleaning that only fills NaN with the column's median.
clean_infinite_values_median_only(col) ==
    LET s == SortedFinite(col)
    IN  [i \in DOMAIN col |->
            IF col[i].k = "nan" /\ s # <<>> THEN Num(Median(s)) ELSE col[i]]

\* clean_infinite_values(df, method='clip') on one numeric column.
clean_infinite_values(col) ==
    FinalCheck(FillMedian(ClipQuantiles(ReplaceInf(col))))

\* Series.clip(lower=lo), Series.clip(upper=hi), Series % m on one float.
ClipLower(x, lo) ==
    IF x.k = "num" THEN Num(Max2(x.v, lo))
    ELSE IF x.k = "-inf" THEN Num(lo) ELSE x

ClipUpper(x, hi) ==
    IF x.k = "num" THEN Num(Min2(x.v, hi))
    ELSE IF x.k = "inf" THEN Num(hi) ELSE x

Modulo(x, m) == IF x.k = "num" THEN Num(x.v % m) ELSE NaN

Columns ==
    {"pm25", "pm10", "co2", "aqi", "temperature", "humidity", "hour",
     "dayOfWeek", "month"}

\* Lines 142-167: the clamp of one value of the column `name`.
Clamp(name, x) ==
    CASE name \in {"pm25", "pm10"} -> ClipUpper(ClipLower(x, 0), 1000000)
      [] name = "co2" -> ClipUpper(ClipLower(ClipLower(x, 0), 300000), 10000000)
      [] name = "aqi" -> ClipUpper(ClipLower(x, 0), 500000)
      [] name = "temperature" -> ClipUpper(ClipLower(x, -50000), 60000)
      [] name = "humidity" -> ClipUpper(ClipLower(x, 0), 100000)
      [] name = "hour" -> Modulo(x, 24000)
      [] name = "dayOfWeek" -> Modulo(x, 7000)
      [] name = "month" -> ClipUpper(ClipLower(x, 1000), 12000)

\* validate_input_data on one column of a non-empty table that has every
\* required column: the clamps, then clean_infinite_values (line 170).
validate_input_data(name, col) ==
    clean_infinite_values([i \in DOMAIN col |-> Clamp(name, col[i])])

\* The range the clamp of a column stands for, as [lo, hi); hour and
\* dayOfWeek exclude their upper end.
DomainOf(name) ==
    CASE name \in {"pm25", "pm10"} -> <<0, 1000001>>
      [] name = "co2" -> <<300000, 10000001>>
      [] name = "aqi" -> <<0, 500001>>
      [] name = "temperature" -> <<-50000, 60001>>
      [] name = "humidity" -> <<0, 100001>>
      [] name = "hour" -> <<0, 24000>>
      [] name = "dayOfWeek" -> <<0, 7000>>
      [] name = "month" -> <<1000, 12001>>

\* Raw floats of a request: negative, ordinary, beyond every range, and the
\* values JSON carries as Infinity, -Infinity and NaN.
---------------------------------------------------------------------------
(* The predictor: AirQualityPredictor.__init__ *)

Variants == {"rf", "gb"}
model_version == "2.2"

\* An estimator is absent (no entry in self.models), unfitted (constructed,
\* fit never succeeded), fitted on a cross-validation fold ("fold") or fitted
\* on the whole training set ("fitted"); `by` is the train_model call that
\* constructed it.
NoEstimator == [st |-> "absent", by |-> 0]
NewEstimator(id) == [st |-> "unfitted", by |-> id]

\* A scaler is None, a fresh RobustScaler() or a fitted one; `by` is the
\* train_model call that constructed it.  center and scale are those of the
\* target scaler, in thousandths.
NoScaler == [st |-> "none", by |-> 0, center |-> 0, scale |-> 0]
NewScaler(id) == [st |-> "unfitted", by |-> id, center |-> 0, scale |-> 0]

InitialWeights == [rf |-> <<2, 5>>, gb |-> <<3, 10>>, lstm |-> <<3, 10>>]

InitialPredictor ==
    [models |-> [rf |-> NoEstimator, gb |-> NoEstimator],
     feature_scaler |-> NoScaler,
     target_scaler |-> NoScaler,
     ensemble_weights |-> InitialWeights]

Predictor ==
    [models |-> models,
     feature_scaler |-> feature_scaler,
     target_scaler |-> target_scaler,
     ensemble_weights |-> ensemble_weights]

\* `not self.models`
NoModels(p) == \A v \in Variants : p.models[v].st = "absent"

Usable(est) == est.st \in {"fold", "fitted"}

---------------------------------------------------------------------------
(* train_model *)

\* prepare_features / validate_input_data: the error it returns, "" for none.
PrepareError(d) ==
    IF d.n = 0 THEN "DataFrame vide"
    ELSE IF ~d.colsOk THEN "Colonnes manquantes"
    ELSE ""

\* Rows left for training: the last observation has no target.
TrainingSamples(d) == Max2(d.n - 1, 0)

\* RobustScaler.fit on the targets: center is the median, scale the
\* interquartile range, 1.0 when that range is zero.
FitTargetScaler(id, d) ==
    [st |-> "fitted", by |-> id, center |-> d.center,
     scale |-> IF d.iqr = 0 THEN 1000 ELSE d.iqr]

FitFeatureScaler(id) == [st |-> "fitted", by |-> id, center |-> 0, scale |-> 0]

NeutralScore == <<1, 2>>

\* One pass of the cross-validation loop body, lines 449-467.  The fold's
\* outcome o says which call raised, and the scores r2_score returned.
FoldStep(acc, o) ==
    IF o.k = "ok" THEN
        [rf |-> Append(acc.rf, <<o.rf, 10>>),
         gb |-> Append(acc.gb, <<o.gb, 10>>),
         models |-> [rf |-> [acc.models.rf EXCEPT !.st = "fold"],
                     gb |-> [acc.models.gb EXCEPT !.st = "fold"]]]
    ELSE IF o.k = "rf_fails" THEN
        [rf |-> Append(acc.rf, NeutralScore),
         gb |-> Append(acc.gb, NeutralScore),
         models |-> acc.models]
    ELSE \* the gradient boosting call raises after rf's score was recorded
        [rf |-> Append(Append(acc.rf, <<o.rf, 10>>), NeutralScore),
         gb |-> Append(acc.gb, NeutralScore),
         models |-> [acc.models EXCEPT !.rf.st = "fold"]]

RECURSIVE RunFolds(_, _)
RunFolds(acc, folds) ==
    IF folds = <<>> THEN acc
    ELSE RunFolds(FoldStep(acc, Head(folds)), Tail(folds))

RECURSIVE RatSum(_)
RatSum(s) == IF s = <<>> THEN <<0, 1>> ELSE RatAdd(Head(s), RatSum(Tail(s)))

\* np.mean(v) if v else 0.5
MeanScore(v) == IF v = <<>> THEN NeutralScore ELSE RatDiv(RatSum(v), <<Len(v), 1>>)

\* Lines 477-486: the weights the call leaves in self.ensemble_weights.
AdjustWeights(old, avg_scores, use_ensemble) ==
    LET total_score == RatAdd(avg_scores.rf, RatAdd(avg_scores.gb, avg_scores.lstm))
    IN  IF ~use_ensemble THEN old
        ELSE IF total_score[1] > 0
             THEN [k \in {"rf", "gb", "lstm"} |-> RatDiv(avg_scores[k], total_score)]
             ELSE [rf |-> <<1, 2>>, gb |-> <<1, 2>>, lstm |-> <<0, 1>>]

\* `return False, reason` (lines 388, 420, 475).
TrainFailure(p, why) ==
    [p |-> p, ok |-> FALSE, err |-> why, raised |-> FALSE,
     scores |-> <<>>, summary |-> <<>>]

\* An exception that no inner handler catches, without the outer handler:
\* it leaves train_model.
OuterExcept_absent(p, e) ==
    [p |-> p, ok |-> FALSE, err |-> "", raised |-> TRUE,
     scores |-> <<>>, summary |-> <<>>]

\* Lines 528-530: an exception that no inner handler catches becomes
\* `return False, str(e)`.
OuterExcept(p, e) ==
    [p |-> p, ok |-> FALSE, err |-> e, raised |-> FALSE,
     scores |-> <<>>, summary |-> <<>>]

\* train_model(data, use_ensemble) on predictor p, as call number id; tp is
\* what the environment decides: the outcome of each fold and the stage, if
\* any, at which a library call raises.
train_model(p, d, use_ensemble, tp, id) ==
    LET p1 == [p EXCEPT !.feature_scaler = NewScaler(id),
                        !.target_scaler = NewScaler(id)]
        p2 == [p1 EXCEPT !.feature_scaler = FitFeatureScaler(id),
                         !.target_scaler =
                             IF tp.fail = "scale_target" THEN NewScaler(id)
                             ELSE FitTargetScaler(id, d)]
        p3 == [p2 EXCEPT !.models = [v \in Variants |-> NewEstimator(id)]]
        cv == RunFolds([rf |-> <<>>, gb |-> <<>>, models |-> p3.models], tp.folds)
        p4 == [p3 EXCEPT !.models = cv.models]
        p5 == [p4 EXCEPT !.models.rf.st = "fitted"]
        p6 == [p5 EXCEPT !.models.gb.st = "fitted"]
        avg_scores == [rf |-> MeanScore(cv.rf), gb |-> MeanScore(cv.gb),
                       lstm |-> MeanScore(<<>>)]
        p7 == [p6 EXCEPT !.ensemble_weights =
                  AdjustWeights(p6.ensemble_weights, avg_scores, use_ensemble)]
    IN  IF PrepareError(d) # "" \/ tp.fail = "prepare"
            THEN TrainFailure(p, "Erreur preparation features")
        ELSE IF TrainingSamples(d) = 0 \/ tp.fail = "scale"
            THEN TrainFailure(p1, "Erreur normalisation")
        ELSE IF tp.fail = "scale_target" THEN TrainFailure(p2, "Erreur normalisation")
        ELSE IF TrainingSamples(d) < n_splits + 1
            THEN OuterExcept(p3, "Cannot have number of splits greater than the number of samples")
        ELSE IF tp.fail = "final_rf" THEN TrainFailure(p4, "Erreur entrainement final")
        ELSE IF tp.fail = "final_gb" THEN TrainFailure(p5, "Erreur entrainement final")
        ELSE [p |-> p7, ok |-> TRUE, err |-> "", raised |-> FALSE,
              scores |-> [rf |-> cv.rf, gb |-> cv.gb],
              summary |->
                 [ensemble_weights |-> p7.ensemble_weights,
                  model_scores |-> avg_scores,
                  training_samples |-> TrainingSamples(d),
                  metrics |-> IF tp.fail = "evaluation" THEN "default" ELSE "computed",
                  top_features |-> IF tp.fail = "importance" THEN "empty" ELSE "ranked"]]

---------------------------------------------------------------------------
(* predict *)

\* predict_ensemble on one scaled row.  out gives each variant's scaled
\* prediction (in tenths); a variant whose predict raises (an unfitted
\* estimator, or a failure the environment forces) is skipped.
VariantAnswers(p, pp, v) ==
    /\ p.models[v].st # "absent"
    /\ Usable(p.models[v])
    /\ v \notin pp.failing

\* predict_ensemble without lines 559-561: no neutral value when nothing
\* was added.
predict_ensemble_no_neutral(p, pp) ==
    LET term(v) == IF VariantAnswers(p, pp, v)
                   THEN RatMul(<<pp.out[v], 10>>, p.ensemble_weights[v])
                   ELSE <<0, 1>>
    IN  RatAdd(term("rf"), term("gb"))

predict_ensemble(p, pp) ==
    LET term(v) == IF VariantAnswers(p, pp, v)
                   THEN RatMul(<<pp.out[v], 10>>, p.ensemble_weights[v])
                   ELSE <<0, 1>>
        predictions == RatAdd(term("rf"), term("gb"))
    IN  IF predictions[1] = 0 THEN <<1, 2>> ELSE predictions

\* target_scaler.inverse_transform, then max(0, min(pred_pm25, 1000)).
InversePm25(scaler, e) ==
    LET x == scaler.center + RoundDiv(scaler.scale * e[1], e[2])
    IN  Max2(0, Min2(x, PmCeiling))

\* Line 607 without its lower bound.
StepConfidence_no_floor(hour) ==
    Min2(ConfCeiling, ConfStart - (hour - 1) * ConfDecay)

\* Line 607.
StepConfidence(hour) ==
    Max2(ConfFloor, Min2(ConfCeiling, ConfStart - (hour - 1) * ConfDecay))

\* get_contributing_factors_safe on a row of features, each a float that may
\* be missing, NaN or infinite: the five rules in order, the first three
\* triggered kept.  pd.notna lets an infinite value through, and an
\* infinite value compares as such with a finite bound.  The formatted
\* 'value' of a factor is left out.
get_contributing_factors_safe(features, prediction) ==
    LET has(name) == name \in DOMAIN features /\ features[name].k # "nan"
        above(x, bound) == (x.k = "num" /\ x.v > bound) \/ x.k = "inf"
        below(x, bound) == (x.k = "num" /\ x.v < bound) \/ x.k = "-inf"
        is_one(name) ==
            name \in DOMAIN features /\ features[name] = [k |-> "num", v |-> 1]
        trend == IF /\ has("pm25_ma_24")
                    /\ above(features.pm25_ma_24, 0)
                    /\ features.pm25_ma_24.k = "num"
                    /\ 10 * prediction > 11 * features.pm25_ma_24.v
                 THEN <<[factor |-> "Tendance croissante", impact |-> "high"]>>
                 ELSE <<>>
        rush == IF is_one("is_morning_rush")
                THEN <<[factor |-> "Heure de pointe matinale", impact |-> "medium"]>>
                ELSE <<>>
        hot == IF has("temperature") /\ above(features.temperature, 30)
               THEN <<[factor |-> "Temperature elevee", impact |-> "medium"]>>
               ELSE <<>>
        dry == IF has("humidity") /\ below(features.humidity, 30)
               THEN <<[factor |-> "Air sec", impact |-> "medium"]>>
               ELSE <<>>
        season == IF is_one("is_dry_season")
                  THEN <<[factor |-> "Saison seche", impact |-> "high"]>>
                  ELSE <<>>
        factors == trend \o rush \o hot \o dry \o season
    IN  SubSeq(factors, 1, Min2(3, Len(factors)))

\* last_features.iloc[0]: the row as a Series of floats.
AsSeries(row) == [f \in DOMAIN row |-> [k |-> "num", v |-> row[f]]]

\* A synthesis that also moves the one-hour lag on to the last pm25.
NextRow_moves_lag(prediction_features, pred_pm25, pred_aqi) ==
    LET n == Len(prediction_features)
        last_features == prediction_features[n]
        h == (last_features.hour + 1000) % 24000
        recent_values(window) ==
            [i \in 1..Min2(window - 1, n) |->
                prediction_features[n - Min2(window - 1, n) + i].pm25]
            \o <<pred_pm25>>
        mean(window) == Rat(SumSeq(recent_values(window)),
                            Len(recent_values(window)))
    IN  [last_features EXCEPT
            !.pm25 = pred_pm25,
            !.aqi = pred_aqi,
            !.hour = h,
            !.dayOfWeek = IF h = 0 THEN (last_features.dayOfWeek + 1) % 7
                          ELSE last_features.dayOfWeek,
            !.pm25_ma_3 = mean(3),
            !.pm25_ma_6 = mean(6),
            !.pm25_lag_1 = last_features.pm25]

\* Lines 630-647 on the table prediction_features: the row the next step
\* starts from.  hour is in thousandths; the two rolling means are those of
\* the last `window - 1` pm25 values of the table and the new prediction.
NextRow(prediction_features, pred_pm25, pred_aqi) ==
    LET n == Len(prediction_features)
        last_features == prediction_features[n]
        h == (last_features.hour + 1000) % 24000
        recent_values(window) ==
            [i \in 1..Min2(window - 1, n) |->
                prediction_features[n - Min2(window - 1, n) + i].pm25]
            \o <<pred_pm25>>
        mean(window) == Rat(SumSeq(recent_values(window)),
                            Len(recent_values(window)))
    IN  [last_features EXCEPT
            !.pm25 = pred_pm25,
            !.aqi = pred_aqi,
            !.hour = h,
            !.dayOfWeek = IF h = 0 THEN (last_features.dayOfWeek + 1) % 7
                          ELSE last_features.dayOfWeek,
            !.pm25_ma_3 = mean(3),
            !.pm25_ma_6 = mean(6)]

\* data[-1].get('pm25', 25)
LastPm25(d) == IF d.lastPm.k = "absent" THEN DefaultPm25 ELSE d.lastPm.v

\* Lines 609-626.
NormalPoint(d, hour, row, pred_pm25, pred_aqi) ==
    [hour_ahead |-> hour,
     predicted_pm25 |-> RoundDiv(pred_pm25, 10),
     predicted_aqi |-> RoundAqi(pred_aqi),
     confidence |-> StepConfidence(hour),
     timestamp |-> d.lastTs + hour,
     contributing_factors |-> get_contributing_factors_safe(AsSeries(row), pred_pm25),
     modelVersion |-> model_version]

\* Lines 661-669.
FallbackPoint(d, hour) ==
    [hour_ahead |-> hour,
     predicted_pm25 |-> RoundDiv(LastPm25(d), 10),
     predicted_aqi |-> RoundAqi(calculate_aqi(LastPm25(d))),
     confidence |-> ConfFallback,
     timestamp |-> d.lastTs + hour,
     contributing_factors |-> <<>>,
     modelVersion |-> "2.2-fallback"]

\* An exception between lines 588 and 626, before the step's point is appended:
\* the scaler or the target scaler is not fitted, the last timestamp is not in
\* ISO format, or a call fails as the environment decides.
RaisesBeforeAppend(p, d, pp, hour) ==
    \/ p.feature_scaler.st # "fitted"
    \/ p.target_scaler.st # "fitted"
    \/ ~d.tsIso
    \/ (pp.faultAt = hour /\ pp.faultKind = "before_append")

\* An exception between lines 630 and 650, after the step's point is appended.
RaisesAfterAppend(pp, hour) == pp.faultAt = hour /\ pp.faultKind = "after_append"

\* An exception in the except block itself, lines 655-669: the timestamp of
\* the last record is parsed again and the raw pm25 is rounded.
HandlerRaises(d) == ~d.tsIso \/ d.lastPm.k = "null"

\* The loop bound without its cap: range(1, hours_ahead + 1).
LastHour_uncapped(hours_ahead) == hours_ahead

\* range(1, min(hours_ahead + 1, 25))
LastHour(hours_ahead) == Min2(hours_ahead + 1, MaxHours + 1) - 1

\* The loop of lines 585-671 from step `hour` on.  prediction_features is
\* the feature table, of which the loop reads the last row and the last
\* pm25 values; a step that raises appends no row to it.
RECURSIVE ForecastFrom(_, _, _, _, _, _, _)
ForecastFrom(p, d, pp, hours_ahead, hour, prediction_features, predictions) ==
    IF hour > LastHour(hours_ahead)
        THEN [raised |-> FALSE, predictions |-> predictions,
              prediction_features |-> prediction_features]
    ELSE IF RaisesBeforeAppend(p, d, pp, hour) THEN
        IF HandlerRaises(d)
            THEN [raised |-> TRUE, predictions |-> predictions,
                  prediction_features |-> prediction_features]
        ELSE ForecastFrom(p, d, pp, hours_ahead, hour + 1, prediction_features,
                          Append(predictions, FallbackPoint(d, hour)))
    ELSE
        LET row == prediction_features[Len(prediction_features)]
            pred_pm25 == InversePm25(p.target_scaler, predict_ensemble(p, pp))
            pred_aqi == calculate_aqi(pred_pm25)
            appended == Append(predictions,
                               NormalPoint(d, hour, row, pred_pm25, pred_aqi))
        IN  IF RaisesAfterAppend(pp, hour) THEN
                IF HandlerRaises(d)
                    THEN [raised |-> TRUE, predictions |-> appended,
                          prediction_features |-> prediction_features]
                ELSE ForecastFrom(p, d, pp, hours_ahead, hour + 1,
                                  prediction_features,
                                  Append(appended, FallbackPoint(d, hour)))
            ELSE ForecastFrom(p, d, pp, hours_ahead, hour + 1,
                              Append(prediction_features,
                                     NextRow(prediction_features, pred_pm25, pred_aqi)),
                              appended)

\* predict(data, hours_ahead) on predictor p.  Of the table prepare_features
\* returns, the rows the loop can read are kept: the last row and the few
\* before it.
predict(p, d, hours_ahead, pp) ==
    IF NoModels(p) \/ p.feature_scaler.st = "none"
        THEN [ok |-> FALSE, err |-> "Modeles non entraines", predictions |-> <<>>,
              prediction_features |-> <<>>]
    ELSE IF PrepareError(d) # ""
        THEN [ok |-> FALSE, err |-> "Erreur preparation features", predictions |-> <<>>,
              prediction_features |-> <<>>]
    ELSE LET run == ForecastFrom(p, d, pp, hours_ahead, 1,
                                 Append(d.earlier, d.row), <<>>)
         IN  IF run.raised
                 THEN [ok |-> FALSE, err |-> "exception", predictions |-> <<>>,
                       prediction_features |-> <<>>]
                 ELSE [ok |-> TRUE, err |-> "", predictions |-> run.predictions,
                       prediction_features |-> run.prediction_features]

---------------------------------------------------------------------------
(* The endpoints *)

NoTrain ==
    [invoked |-> FALSE, ok |-> FALSE, err |-> "", raised |-> FALSE,
     scores |-> <<>>, summary |-> <<>>]

\* What a call leaves with its caller.  prediction_features is the table
\* predict ends with; an endpoint does not return it.
Reply(status, ok, err, predictions, train) ==
    [status |-> status, ok |-> ok, err |-> err,
     predictions |-> predictions, train |-> train,
     prediction_features |-> <<>>]

TrainInfo(t) ==
    [invoked |-> TRUE, ok |-> t.ok, err |-> t.err, raised |-> t.raised,
     scores |-> t.scores, summary |-> t.summary]

\* POST /predict without the length check of lines 807-811.
predict_endpoint_unchecked(p, r, id) ==
    LET hours_ahead == Min2(r.hours_ahead, MaxHours)
        t == train_model(p, r.data, r.use_ensemble, r.tp, id)
        f == predict(t.p, r.data, hours_ahead, r.pp)
    IN  IF ~r.data.colsOk
            THEN [p |-> p, reply |-> Reply(400, FALSE, "Champs manquants", <<>>, NoTrain)]
        ELSE IF ~t.ok
            THEN [p |-> t.p, reply |-> Reply(500, FALSE, "Echec entrainement", <<>>, TrainInfo(t))]
        ELSE IF ~f.ok
            THEN [p |-> t.p, reply |-> Reply(500, FALSE, "Erreur prediction", <<>>, TrainInfo(t))]
        ELSE IF f.predictions = <<>>
            THEN [p |-> t.p, reply |-> Reply(500, FALSE, "Aucune prediction generee", <<>>, TrainInfo(t))]
        ELSE [p |-> t.p, reply |-> Reply(200, TRUE, "", f.predictions, TrainInfo(t))]

\* POST /predict, lines 789-893: the reply and the predictor it leaves.
predict_endpoint(p, r, id) ==
    LET hours_ahead == Min2(r.hours_ahead, MaxHours)
        t == train_model(p, r.data, r.use_ensemble, r.tp, id)
        f == predict(t.p, r.data, hours_ahead, r.pp)
    IN  IF r.data.n < min_data_points
            THEN [p |-> p, reply |-> Reply(400, FALSE, "Minimum de points requis", <<>>, NoTrain)]
        ELSE IF ~r.data.colsOk
            THEN [p |-> p, reply |-> Reply(400, FALSE, "Champs manquants", <<>>, NoTrain)]
        ELSE IF ~t.ok
            THEN [p |-> t.p, reply |-> Reply(500, FALSE, "Echec entrainement", <<>>, TrainInfo(t))]
        ELSE IF ~f.ok
            THEN [p |-> t.p, reply |-> Reply(500, FALSE, "Erreur prediction", <<>>, TrainInfo(t))]
        ELSE IF f.predictions = <<>>
            THEN [p |-> t.p, reply |-> Reply(500, FALSE, "Aucune prediction generee", <<>>, TrainInfo(t))]
        ELSE [p |-> t.p, reply |-> Reply(200, TRUE, "", f.predictions, TrainInfo(t))]

\* POST /model/retrain, lines 940-968.
retrain_model(p, r, id) ==
    LET t == train_model(p, r.data, r.use_ensemble, r.tp, id)
    IN  [p |-> t.p, reply |-> Reply(200, t.ok, t.err, <<>>, TrainInfo(t))]

\* predictor.train_model(...) called directly.
train_call(p, r, id) ==
    LET t == train_model(p, r.data, r.use_ensemble, r.tp, id)
    IN  [p |-> t.p, reply |-> Reply(0, t.ok, t.err, <<>>, TrainInfo(t))]

\* predictor.predict(...) called directly.
predict_call(p, r) ==
    LET f == predict(p, r.data, r.hours_ahead, r.pp)
    IN  [p |-> p,
         reply |-> [Reply(0, f.ok, f.err, f.predictions, NoTrain)
                       EXCEPT !.prediction_features = f.prediction_features]]

Serve(p, r, id) ==
    CASE r.op = "POST /predict" -> predict_endpoint(p, r, id)
      [] r.op = "POST /model/retrain" -> retrain_model(p, r, id)
      [] r.op = "train_model" -> train_call(p, r, id)
      [] r.op = "predict" -> predict_call(p, r)

---------------------------------------------------------------------------
(* What the environment may send *)

\* The raw pm25 of the last record: negative, inside the gap between the
\* first two AQI bands, key absent, JSON null.
RawPm25s == {Num(-5000), Num(12050), [k |-> "absent", v |-> 0], [k |-> "null", v |-> 0]}

\* Lines 203-206: the indicators prepare_features derives from a record's
\* hour (in thousandths) and dayOfWeek.
TimeFeatures(hour, dayOfWeek) ==
    [is_weekend |-> IF dayOfWeek >= 5 THEN 1 ELSE 0,
     is_morning_rush |-> IF hour >= 6000 /\ hour <= 9000 THEN 1 ELSE 0,
     is_evening_rush |-> IF hour >= 17000 /\ hour <= 20000 THEN 1 ELSE 0,
     is_night |-> IF hour >= 22000 \/ hour <= 5000 THEN 1 ELSE 0]

\* A row of the feature table built from a record: its columns, and the
\* indicators of its hour and day.
FeatureRow(record) ==
    [f \in DOMAIN record \cup DOMAIN TimeFeatures(0, 0) |->
        IF f \in DOMAIN TimeFeatures(0, 0)
        THEN TimeFeatures(record.hour, record.dayOfWeek)[f]
        ELSE record[f]]

QuietRow ==
    FeatureRow(
    [pm25 |-> 20000, aqi |-> <<68, 1>>, hour |-> 10000, dayOfWeek |-> 2,
     pm25_ma_3 |-> <<20000, 1>>, pm25_ma_6 |-> <<20000, 1>>,
     pm25_ma_24 |-> 30000, pm25_lag_1 |-> 20000, temperature |-> 20,
     humidity |-> 50, is_dry_season |-> 0])

BusyRow ==
    FeatureRow(
    [pm25 |-> 20000, aqi |-> <<68, 1>>, hour |-> 9000, dayOfWeek |-> 6,
     pm25_ma_3 |-> <<20000, 1>>, pm25_ma_6 |-> <<20000, 1>>,
     pm25_ma_24 |-> 10000, pm25_lag_1 |-> 20000, temperature |-> 35,
     humidity |-> 20, is_dry_season |-> 1])

\* The last observation of the day, at 23 h.
LateRow == FeatureRow([QuietRow EXCEPT !.hour = 23000])

\* The hour column of 48 records of a feed with gaps: the hours 0 to 22
\* round and round, then a last record at 23 h, the only one of that hour.
GappedHours ==
    [i \in 1..min_data_points |->
        [k |-> "num",
         v |-> IF i = min_data_points THEN 23000 ELSE ((i - 1) % 23) * 1000]]

\* The last record of such a feed as a feature row.  Its indicators come
\* from the hour validate_input_data returns (lines 162 and 170), and its
\* hour column is cleaned once more with the whole table (line 347): each
\* cleaning clips the column to its 1st and 99th percentiles.
GappedRow ==
    LET validated == validate_input_data("hour", GappedHours)
        cleaned == clean_infinite_values(validated)
    IN  [FeatureRow([QuietRow EXCEPT !.hour = validated[min_data_points].v])
            EXCEPT !.hour = cleaned[min_data_points].v]

\* The five rows before the last one: an hour apart, pm25 rising.
EarlierRows ==
    [i \in 1..5 |->
        FeatureRow([QuietRow EXCEPT !.pm25 = 10000 + 2000 * i,
                                    !.hour = 4000 + 1000 * i])]

BaseData ==
    [n |-> min_data_points, colsOk |-> TRUE, lastTs |-> 100, tsIso |-> TRUE,
     lastPm |-> Num(12050), center |-> 20000, iqr |-> 8000, row |-> QuietRow,
     earlier |-> EarlierRows]

DataLens ==
    {0, 1, n_splits + 1, 10, min_data_points - 1, min_data_points,
     min_data_points + ExtraObs}

\* What matters to training: the length, the columns, the target's spread.
TrainDatas ==
    {[BaseData EXCEPT !.n = n] : n \in DataLens}
    \cup {[BaseData EXCEPT !.colsOk = FALSE], [BaseData EXCEPT !.iqr = 0]}

\* What matters to the forecast: the last record and the last feature row.
ForecastDatas ==
    {[BaseData EXCEPT !.tsIso = i, !.lastPm = v] : i \in BOOLEAN, v \in RawPm25s}
    \cup {[BaseData EXCEPT !.row = BusyRow, !.lastTs = 7, !.center = 300000,
                           !.n = min_data_points + ExtraObs]}

Scores == {-10, 8}

GoodFold == [k |-> "ok", rf |-> 8, gb |-> 8]

\* Fold outcomes: every fold alike, or the first fold alone failing.  rf and
\* gb are the scores r2_score returns for the variant when its fit and
\* predict go through (in tenths); when rf raises, gb is never run and its
\* score is the one it would have had.
FoldPlans ==
    {[i \in 1..n_splits |-> [k |-> "ok", rf |-> r, gb |-> g]] :
        r \in Scores, g \in Scores}
    \cup {[i \in 1..n_splits |-> IF i = 1 THEN o ELSE GoodFold] :
            o \in {[k |-> "rf_fails", rf |-> 0, gb |-> 8],
                   [k |-> "gb_fails", rf |-> 8, gb |-> 0]}}

BaseTrainPlan == [folds |-> [i \in 1..n_splits |-> GoodFold], fail |-> "none"]

TrainPlans ==
    {[BaseTrainPlan EXCEPT !.folds = f] : f \in FoldPlans}
    \cup {[BaseTrainPlan EXCEPT !.fail = s] :
            s \in {"prepare", "scale", "scale_target", "final_rf", "final_gb",
                   "evaluation", "importance"}}

BasePredictPlan ==
    [out |-> [rf |-> 5, gb |-> 10], failing |-> {}, faultAt |-> 0,
     faultKind |-> "before_append"]

HoursRange == (0 - 1)..(MaxHours + ExtraHours)

ShortHorizon == 3

\* A failure forced at one step, the first or the last of a short forecast.
FaultPlans ==
    {[BasePredictPlan EXCEPT !.faultAt = k, !.faultKind = kind] :
        k \in {1, ShortHorizon}, kind \in {"before_append", "after_append"}}

\* Variants forced to fail at every step, and what the others answer.
VariantPlans ==
    {[BasePredictPlan EXCEPT !.failing = f, !.out = o] :
        f \in SUBSET Variants,
        o \in {[rf |-> 5, gb |-> -5], [rf |-> 0, gb |-> 0], [rf |-> -40, gb |-> -40],
               [rf |-> 2000, gb |-> 2000]}}

BaseRequest ==
    [op |-> "predict", data |-> BaseData, hours_ahead |-> ShortHorizon,
     use_ensemble |-> TRUE, tp |-> BaseTrainPlan, pp |-> BasePredictPlan]

TrainRequests ==
    {[BaseRequest EXCEPT !.op = "POST /model/retrain", !.data = d] : d \in TrainDatas}
    \cup {[BaseRequest EXCEPT !.op = "train_model", !.data.n = n] :
            n \in {1, min_data_points - 1, min_data_points}}
    \cup {[BaseRequest EXCEPT !.op = "POST /model/retrain", !.tp = t] : t \in TrainPlans}
    \cup {[BaseRequest EXCEPT !.op = "POST /model/retrain", !.use_ensemble = FALSE]}

ForecastRequests ==
    {[BaseRequest EXCEPT !.op = o, !.hours_ahead = h] :
        o \in {"POST /predict", "predict"}, h \in HoursRange}
    \cup {[BaseRequest EXCEPT !.op = "POST /predict", !.data = d, !.tp = t] :
            d \in {[BaseData EXCEPT !.n = min_data_points - 1],
                   [BaseData EXCEPT !.colsOk = FALSE]},
            t \in {BaseTrainPlan, [BaseTrainPlan EXCEPT !.fail = "final_gb"]}}
    \cup {[BaseRequest EXCEPT !.op = "POST /predict", !.tp.fail = "final_rf"]}
    \cup {[BaseRequest EXCEPT !.op = o, !.data = d, !.pp = f] :
            o \in {"POST /predict", "predict"},
            d \in ForecastDatas, f \in FaultPlans \cup {BasePredictPlan}}
    \cup {[BaseRequest EXCEPT !.op = "predict", !.data = d, !.pp = f] :
            d \in {BaseData, [BaseData EXCEPT !.iqr = 0, !.row = BusyRow]},
            f \in VariantPlans}
    \cup {[BaseRequest EXCEPT !.hours_ahead = MaxHours + ExtraHours, !.pp.faultAt = 1]}
    \cup {[BaseRequest EXCEPT !.data.row = r, !.hours_ahead = h] :
            r \in {BusyRow, LateRow, GappedRow}, h \in {ShortHorizon, MaxHours}}
    \cup {[BaseRequest EXCEPT !.op = o, !.hours_ahead = MaxHours, !.pp.failing = Variants] :
            o \in {"POST /predict", "predict"}}

Requests == TrainRequests \cup ForecastRequests

---------------------------------------------------------------------------
(* The service: one call at a time on the shared predictor *)

NoRequest == [op |-> "none"]
NoReply == [status |-> -1]

Init ==
    /\ models = InitialPredictor.models
    /\ feature_scaler = InitialPredictor.feature_scaler
    /\ target_scaler = InitialPredictor.target_scaler
    /\ ensemble_weights = InitialPredictor.ensemble_weights
    /\ req = NoRequest
    /\ resp = NoReply
    /\ prev = InitialPredictor
    /\ nCalls = 0
    /\ aqiIn = <<0, 0>>
    /\ aqiOut = <<>>
    /\ threads = <<>>
    /\ arg = <<>>
    /\ result = <<>>

\* A call arrives.
Receive(r) ==
    /\ req = NoRequest
    /\ nCalls < MaxCalls
    /\ req' = r
    /\ resp' = NoReply
    /\ UNCHANGED <<models, feature_scaler, target_scaler, ensemble_weights,
                   prev, nCalls, aqiIn, aqiOut, threads, arg, result>>

\* The call runs to completion.
Handle ==
    /\ req # NoRequest
    /\ resp = NoReply
    /\ \E out \in {Serve(Predictor, req, nCalls + 1)} :
           /\ models' = out.p.models
           /\ feature_scaler' = out.p.feature_scaler
           /\ target_scaler' = out.p.target_scaler
           /\ ensemble_weights' = out.p.ensemble_weights
           /\ resp' = out.reply
    /\ prev' = Predictor
    /\ nCalls' = nCalls + 1
    /\ UNCHANGED <<req, aqiIn, aqiOut, threads, arg, result>>

\* The caller has its answer.
Respond ==
    /\ resp # NoReply
    /\ req' = NoRequest
    /\ resp' = NoReply
    /\ prev' = Predictor
    /\ UNCHANGED <<models, feature_scaler, target_scaler, ensemble_weights,
                   nCalls, aqiIn, aqiOut, threads, arg, result>>

Next ==
    \/ \E r \in Requests : Receive(r)
    \/ Handle
    \/ Respond

Spec == Init /\ [][Next]_vars

---------------------------------------------------------------------------
(* calculate_aqi on its own: a pair of PM2.5 values, then their two results *)

\* PM2.5 values in [0, 1000]: the ends of every band, a point inside every
\* gap between two bands, and values above the last band.
AqiGrid ==
    {0, 6000, 12000, 12050, 12100, 35400, 35450, 35500, 55400, 55450, 55500,
     150400, 150450, 150500, 250400, 250450, 250500, 350400, 350450, 350500,
     500400, 500450, 750000, 1000000}

InitAqi ==
    /\ models = InitialPredictor.models
    /\ feature_scaler = InitialPredictor.feature_scaler
    /\ target_scaler = InitialPredictor.target_scaler
    /\ ensemble_weights = InitialPredictor.ensemble_weights
    /\ req = NoRequest
    /\ resp = NoReply
    /\ prev = InitialPredictor
    /\ nCalls = 0
    /\ aqiIn \in {<<a, b>> : a \in AqiGrid, b \in AqiGrid}
    /\ aqiIn[1] <= aqiIn[2]
    /\ aqiOut = <<>>
    /\ threads = <<>>
    /\ arg = <<>>
    /\ result = <<>>

EvaluateAqi ==
    /\ aqiOut = <<>>
    /\ aqiOut' = <<calculate_aqi(aqiIn[1]), calculate_aqi(aqiIn[2])>>
    /\ UNCHANGED <<models, feature_scaler, target_scaler, ensemble_weights,
                   req, resp, prev, nCalls, aqiIn, threads, arg, result>>

NextAqi == EvaluateAqi

SpecAqi == InitAqi /\ [][NextAqi]_vars

---------------------------------------------------------------------------
(* clean_infinite_values and validate_input_data on one column *)

RawFloats == {Num(-5000), Num(7000), Num(20000000), PosInf, NegInf, NaN}

MaxRows == 3

RawColumns == UNION {[1..n -> RawFloats] : n \in 1..MaxRows}

InitColumns ==
    /\ models = InitialPredictor.models
    /\ feature_scaler = InitialPredictor.feature_scaler
    /\ target_scaler = InitialPredictor.target_scaler
    /\ ensemble_weights = InitialPredictor.ensemble_weights
    /\ req = NoRequest
    /\ resp = NoReply
    /\ prev = InitialPredictor
    /\ nCalls = 0
    /\ aqiIn = <<0, 0>>
    /\ aqiOut = <<>>
    /\ threads = <<>>
    /\ arg \in {[name |-> c, col |-> r] : c \in Columns, r \in RawColumns}
    /\ result = <<>>

\* clean_infinite_values is called on the table.
CleanColumn ==
    /\ result = <<>>
    /\ result' = [fn |-> "clean_infinite_values",
                  col |-> clean_infinite_values(arg.col)]
    /\ UNCHANGED <<models, feature_scaler, target_scaler, ensemble_weights,
                   req, resp, prev, nCalls, aqiIn, aqiOut, threads, arg>>

\* validate_input_data is called on the table.
ValidateColumn ==
    /\ result = <<>>
    /\ result' = [fn |-> "validate_input_data",
                  col |-> validate_input_data(arg.name, arg.col)]
    /\ UNCHANGED <<models, feature_scaler, target_scaler, ensemble_weights,
                   req, resp, prev, nCalls, aqiIn, aqiOut, threads, arg>>

NextColumns == CleanColumn \/ ValidateColumn

SpecColumns == InitColumns /\ [][NextColumns]_vars

---------------------------------------------------------------------------
(* prepare_features on a table of observations [ts, pm25, pm10], and the   *)
(* training pairs and forecast seeds train_model and predict build on it.  *)
(* Of the feature columns, those that are exact in thousandths are kept:   *)
(* pm25, pm10, pm_ratio, pm25_lag_1 and pm25_diff_1.                       *)

ColumnOf(data, f) == [i \in DOMAIN data |-> Num(data[i][f])]

Values(col) == [i \in DOMAIN col |-> col[i].v]

\* df after validate_input_data (line 183): rows in the order of the input.
ValidatedTable(data) ==
    LET pm25 == Values(validate_input_data("pm25", ColumnOf(data, "pm25")))
        pm10 == Values(validate_input_data("pm10", ColumnOf(data, "pm10")))
    IN  [i \in DOMAIN data |-> [ts |-> data[i].ts, pm25 |-> pm25[i], pm10 |-> pm10[i]]]

\* Lines 188-189: df.sort_values('timestamp')
SortByTimestamp(df) == SortSeq(df, LAMBDA a, b : a.ts < b.ts)

\* safe_division on one element; the quotient of two values in thousandths,
\* in thousandths.
safe_division(numerator, denominator, fallback) ==
    IF denominator # 0 THEN (numerator * 1000) \div denominator ELSE fallback

\* The ratio with pm10 itself as denominator.
PmRatio_no_offset(df) ==
    [i \in DOMAIN df |-> safe_division(df[i].pm25, df[i].pm10, 500)]

\* Lines 242-246: pm25 / (pm10 + 1), fallback 0.5.
PmRatio(df) ==
    [i \in DOMAIN df |-> safe_division(df[i].pm25, df[i].pm10 + 1000, 500)]

\* Lines 270-273 for lag 1: shift(1), the first row filled backward.
Lag1(df) == [i \in DOMAIN df |-> IF i = 1 THEN df[1].pm25 ELSE df[i - 1].pm25]

\* Lines 251-252 for lag 1: diff(1), the first row 0.
Diff1(df) == [i \in DOMAIN df |-> IF i = 1 THEN 0 ELSE df[i].pm25 - df[i - 1].pm25]

\* Line 347 on one feature column.
CleanFeature(vals) ==
    Values(clean_infinite_values([i \in DOMAIN vals |-> Num(vals[i])]))

\* prepare_features(data): the feature rows, oldest first.
prepare_features(data) ==
    LET df == SortByTimestamp(ValidatedTable(data))
        pm25 == CleanFeature([i \in DOMAIN df |-> df[i].pm25])
        pm10 == CleanFeature([i \in DOMAIN df |-> df[i].pm10])
        pm_ratio == CleanFeature(PmRatio(df))
        pm25_lag_1 == CleanFeature(Lag1(df))
        pm25_diff_1 == CleanFeature(Diff1(df))
    IN  [i \in DOMAIN df |->
            [pm25 |-> pm25[i], pm10 |-> pm10[i], pm_ratio |-> pm_ratio[i],
             pm25_lag_1 |-> pm25_lag_1[i], pm25_diff_1 |-> pm25_diff_1[i]]]

\* train_model, lines 386-399: features_df.iloc[:-1] beside
\* df['pm25'].shift(-1).dropna() of the table validate_input_data returns.
TrainingPairs(data) ==
    LET features_df == prepare_features(data)
        df == ValidatedTable(data)
    IN  [i \in 1..(Len(data) - 1) |->
            [features |-> features_df[i], target |-> df[i + 1].pm25]]

\* predict: the row the forecast starts from (line 588), the base of the
\* timestamps (line 610) and the value of fallback points (line 659).
ForecastSeed(data) ==
    [seed |-> prepare_features(data)[Len(data)],
     base_time |-> data[Len(data)].ts,
     last_pm25 |-> data[Len(data)].pm25]

PipelineOutcome(data) ==
    [rows |-> prepare_features(data),
     pairs |-> TrainingPairs(data),
     forecast |-> ForecastSeed(data)]

PmGrid == {10000, 20000, 40000}

\* Tables in the order of their timestamps, pm10 zero in every row.
OrderedTables ==
    UNION {{[i \in 1..n |-> [ts |-> i, pm25 |-> f[i], pm10 |-> 0]] : f \in [1..n -> PmGrid]} :
             n \in 2..MaxRows}

Permuted(data) ==
    {[i \in DOMAIN data |-> data[pi[i]]] : pi \in Permutations(DOMAIN data)}

\* Pairs of tables: two ordered tables of one length with the same first
\* observation, or a table and one of its reorderings.
TablePairs ==
    {<<a, b>> \in OrderedTables \X OrderedTables : Len(a) = Len(b) /\ a[1] = b[1]}
    \cup UNION {{<<a, b>> : a \in Permuted(b)} : b \in OrderedTables}

InitFeatures ==
    /\ models = InitialPredictor.models
    /\ feature_scaler = InitialPredictor.feature_scaler
    /\ target_scaler = InitialPredictor.target_scaler
    /\ ensemble_weights = InitialPredictor.ensemble_weights
    /\ req = NoRequest
    /\ resp = NoReply
    /\ prev = InitialPredictor
    /\ nCalls = 0
    /\ aqiIn = <<0, 0>>
    /\ aqiOut = <<>>
    /\ threads = <<>>
    /\ arg \in TablePairs
    /\ result = <<>>

\* The pipeline runs on each table of the pair.
PrepareFeatures ==
    /\ result = <<>>
    /\ result' = <<PipelineOutcome(arg[1]), PipelineOutcome(arg[2])>>
    /\ UNCHANGED <<models, feature_scaler, target_scaler, ensemble_weights,
                   req, resp, prev, nCalls, aqiIn, aqiOut, threads, arg>>

NextFeatures == PrepareFeatures

SpecFeatures == InitFeatures /\ [][NextFeatures]_vars

---------------------------------------------------------------------------
(* Two requests served at once.  app.run serves each request on a thread   *)
(* of its own, and every handler works on the one module-level predictor   *)
(* without a lock: each statement of train_model and predict that reads or *)
(* writes a field of the predictor is a step of its own.  A fit changes    *)
(* the object the field holds at that moment; `by` then names the request  *)
(* whose data fitted it.                                                   *)

Threads == {1, 2}

\* The training that completed before the two requests arrived.
PriorCall == 3

\* What each training runs on: its targets' median and spread, and the
\* validation scores of its folds.
ThreadData(c) ==
    CASE c = 1 -> BaseData
      [] c = 2 -> [BaseData EXCEPT !.center = 300000, !.iqr = 4000]
      [] OTHER -> [BaseData EXCEPT !.center = 50000, !.iqr = 2000]

ThreadFold(c) ==
    CASE c = 1 -> GoodFold
      [] c = 2 -> [k |-> "ok", rf |-> 8, gb |-> -10]
      [] OTHER -> [k |-> "ok", rf |-> -10, gb |-> -10]

ThreadTrainPlan(c) == [folds |-> [i \in 1..n_splits |-> ThreadFold(c)], fail |-> "none"]

\* Lines 478-486 in training c: the weights it assigns.
TrainedWeights(c) ==
    LET cv == RunFolds([rf |-> <<>>, gb |-> <<>>, models |-> InitialPredictor.models],
                       ThreadTrainPlan(c).folds)
    IN  AdjustWeights(InitialWeights,
                      [rf |-> MeanScore(cv.rf), gb |-> MeanScore(cv.gb),
                       lstm |-> MeanScore(<<>>)],
                      TRUE)

\* The predictor an earlier, undisturbed training left.
PriorTrained ==
    train_model(InitialPredictor, ThreadData(PriorCall), TRUE,
                ThreadTrainPlan(PriorCall), PriorCall).p

NoRead == [st |-> "unread", by |-> 0]

\* A request at its first statement on the predictor, line 402.
NewThread(op) ==
    [op |-> op, pc |-> "new_feature_scaler", fold |-> 1,
     reads |-> [feature_scaler |-> NoRead, rf |-> NoRead, gb |-> NoRead,
                target_scaler |-> NoRead, w_rf |-> <<0, 1>>, w_gb |-> <<0, 1>>,
                point |-> "none"]]

Seen(x) == [st |-> x.st, by |-> x.by]

InitConc ==
    /\ \E p \in {InitialPredictor, PriorTrained} :
           /\ models = p.models
           /\ feature_scaler = p.feature_scaler
           /\ target_scaler = p.target_scaler
           /\ ensemble_weights = p.ensemble_weights
           /\ prev = p
    /\ req = NoRequest
    /\ resp = NoReply
    /\ nCalls = 0
    /\ aqiIn = <<0, 0>>
    /\ aqiOut = <<>>
    /\ threads \in [Threads -> {NewThread(op) : op \in {"POST /predict", "POST /model/retrain"}}]
    /\ arg = <<>>
    /\ result = <<>>

ThreadFrame == <<req, resp, prev, nCalls, aqiIn, aqiOut, arg, result>>

\* Line 402: self.feature_scaler = RobustScaler()
ThreadNewFeatureScaler(t) ==
    /\ threads[t].pc = "new_feature_scaler"
    /\ feature_scaler' = NewScaler(t)
    /\ threads' = [threads EXCEPT ![t].pc = "new_target_scaler"]
    /\ UNCHANGED <<models, target_scaler, ensemble_weights, ThreadFrame>>

\* Line 403: self.target_scaler = RobustScaler()
ThreadNewTargetScaler(t) ==
    /\ threads[t].pc = "new_target_scaler"
    /\ target_scaler' = NewScaler(t)
    /\ threads' = [threads EXCEPT ![t].pc = "fit_feature_scaler"]
    /\ UNCHANGED <<models, feature_scaler, ensemble_weights, ThreadFrame>>

\* Line 406: self.feature_scaler.fit_transform(features_df)
ThreadFitFeatureScaler(t) ==
    /\ threads[t].pc = "fit_feature_scaler"
    /\ feature_scaler' = FitFeatureScaler(t)
    /\ threads' = [threads EXCEPT ![t].pc = "fit_target_scaler"]
    /\ UNCHANGED <<models, target_scaler, ensemble_weights, ThreadFrame>>

\* Line 407: self.target_scaler.fit_transform(targets)
ThreadFitTargetScaler(t) ==
    /\ threads[t].pc = "fit_target_scaler"
    /\ target_scaler' = FitTargetScaler(t, ThreadData(t))
    /\ threads' = [threads EXCEPT ![t].pc = "new_rf"]
    /\ UNCHANGED <<models, feature_scaler, ensemble_weights, ThreadFrame>>

\* Line 427: self.models['rf'] = RandomForestRegressor(...)
ThreadNewRf(t) ==
    /\ threads[t].pc = "new_rf"
    /\ models' = [models EXCEPT !.rf = NewEstimator(t)]
    /\ threads' = [threads EXCEPT ![t].pc = "new_gb"]
    /\ UNCHANGED <<feature_scaler, target_scaler, ensemble_weights, ThreadFrame>>

\* Line 438: self.models['gb'] = GradientBoostingRegressor(...)
ThreadNewGb(t) ==
    /\ threads[t].pc = "new_gb"
    /\ models' = [models EXCEPT !.gb = NewEstimator(t)]
    /\ threads' = [threads EXCEPT ![t].pc = "fold_rf"]
    /\ UNCHANGED <<feature_scaler, target_scaler, ensemble_weights, ThreadFrame>>

\* Lines 455 and 460: the fit of one estimator on one fold.
ThreadFoldFit(t) ==
    /\ threads[t].pc \in {"fold_rf", "fold_gb"}
    /\ LET v == IF threads[t].pc = "fold_rf" THEN "rf" ELSE "gb"
       IN  models' = [models EXCEPT ![v] = [st |-> "fold", by |-> t]]
    /\ threads' =
         IF threads[t].pc = "fold_rf" THEN [threads EXCEPT ![t].pc = "fold_gb"]
         ELSE IF threads[t].fold < n_splits
              THEN [threads EXCEPT ![t].pc = "fold_rf", ![t].fold = @ + 1]
              ELSE [threads EXCEPT ![t].pc = "final_rf"]
    /\ UNCHANGED <<feature_scaler, target_scaler, ensemble_weights, ThreadFrame>>

\* Lines 471 and 472: the final fit of one estimator.
ThreadFinalFit(t) ==
    /\ threads[t].pc \in {"final_rf", "final_gb"}
    /\ LET v == IF threads[t].pc = "final_rf" THEN "rf" ELSE "gb"
       IN  models' = [models EXCEPT ![v] = [st |-> "fitted", by |-> t]]
    /\ threads' = [threads EXCEPT ![t].pc =
                      IF threads[t].pc = "final_rf" THEN "final_gb" ELSE "weights"]
    /\ UNCHANGED <<feature_scaler, target_scaler, ensemble_weights, ThreadFrame>>

\* Lines 478-526: the weights are assigned and train_model returns (the
\* evaluation and the feature ranking only read).  POST /model/retrain
\* answers; POST /predict goes on to predict.
ThreadPublishWeights(t) ==
    /\ threads[t].pc = "weights"
    /\ ensemble_weights' = TrainedWeights(t)
    /\ threads' = [threads EXCEPT ![t].pc =
                      IF threads[t].op = "POST /predict" THEN "read_feature_scaler"
                      ELSE "answered"]
    /\ UNCHANGED <<models, feature_scaler, target_scaler, ThreadFrame>>

\* Lines 574-589: the guard passes (this request's own training left models
\* and a scaler) and the first step scales its row; an unfitted scaler
\* raises and the step answers a fallback point.
ThreadReadFeatureScaler(t) ==
    /\ threads[t].pc = "read_feature_scaler"
    /\ threads' = [threads EXCEPT
                      ![t].reads.feature_scaler = Seen(feature_scaler),
                      ![t].reads.point =
                          IF feature_scaler.st = "fitted" THEN "none" ELSE "fallback",
                      ![t].pc =
                          IF feature_scaler.st = "fitted" THEN "read_rf" ELSE "answered"]
    /\ UNCHANGED <<models, feature_scaler, target_scaler, ensemble_weights, ThreadFrame>>

\* Lines 543-556: predict_ensemble reads one variant and its weight.
ThreadReadVariant(t) ==
    /\ threads[t].pc \in {"read_rf", "read_gb"}
    /\ threads' =
         IF threads[t].pc = "read_rf"
         THEN [threads EXCEPT ![t].reads.rf = Seen(models.rf),
                              ![t].reads.w_rf = ensemble_weights.rf,
                              ![t].pc = "read_gb"]
         ELSE [threads EXCEPT ![t].reads.gb = Seen(models.gb),
                              ![t].reads.w_gb = ensemble_weights.gb,
                              ![t].pc = "read_target_scaler"]
    /\ UNCHANGED <<models, feature_scaler, target_scaler, ensemble_weights, ThreadFrame>>

\* Line 600: self.target_scaler.inverse_transform; the step's point is
\* built and the request answers.
ThreadReadTargetScaler(t) ==
    /\ threads[t].pc = "read_target_scaler"
    /\ threads' = [threads EXCEPT
                      ![t].reads.target_scaler = Seen(target_scaler),
                      ![t].reads.point =
                          IF target_scaler.st = "fitted" THEN "normal" ELSE "fallback",
                      ![t].pc = "answered"]
    /\ UNCHANGED <<models, feature_scaler, target_scaler, ensemble_weights, ThreadFrame>>

NextConc ==
    \E t \in Threads :
        \/ ThreadNewFeatureScaler(t)
        \/ ThreadNewTargetScaler(t)
        \/ ThreadFitFeatureScaler(t)
        \/ ThreadFitTargetScaler(t)
        \/ ThreadNewRf(t)
        \/ ThreadNewGb(t)
        \/ ThreadFoldFit(t)
        \/ ThreadFinalFit(t)
        \/ ThreadPublishWeights(t)
        \/ ThreadReadFeatureScaler(t)
        \/ ThreadReadVariant(t)
        \/ ThreadReadTargetScaler(t)

SpecConc == InitConc /\ [][NextConc]_vars

---------------------------------------------------------------------------
(* The cross-validation split of train_model, lines 423 and 449:           *)
(* TimeSeriesSplit(n_splits=3).split(features_scaled), with the defaults   *)
(* gap = 0, test_size = None and max_train_size = None.  A fold is the     *)
(* pair of index sequences (train_idx, val_idx) into the rows of           *)
(* features_scaled, which prepare_features has sorted by timestamp.        *)

Indices(first, last) == [i \in 1..(last - first + 1) |-> first + i - 1]

\* A split whose training part is every row outside the validation block.
TimeSeriesSplit_complement(n_samples) ==
    LET n_folds == n_splits + 1
        test_size == n_samples \div n_folds
        test_start(i) == n_samples - (n_splits - i + 1) * test_size
    IN  IF n_folds > n_samples THEN [raised |-> TRUE, folds |-> <<>>]
        ELSE [raised |-> FALSE,
              folds |-> [i \in 1..n_splits |->
                  [train_idx |-> Indices(0, test_start(i) - 1)
                                 \o Indices(test_start(i) + test_size, n_samples - 1),
                   val_idx |-> Indices(test_start(i),
                                       test_start(i) + test_size - 1)]]]

\* The folds the splitter yields for n_samples rows: test_size is
\* n_samples // (n_splits + 1), the validation blocks are the last n_splits
\* blocks of that size and each training part is everything before its
\* validation block.  With fewer rows than n_splits + 1 the splitter raises.
TimeSeriesSplit(n_samples) ==
    LET n_folds == n_splits + 1
        test_size == n_samples \div n_folds
        test_start(i) == n_samples - (n_splits - i + 1) * test_size
    IN  IF n_folds > n_samples THEN [raised |-> TRUE, folds |-> <<>>]
        ELSE [raised |-> FALSE,
              folds |-> [i \in 1..n_splits |->
                  [train_idx |-> Indices(0, test_start(i) - 1),
                   val_idx |-> Indices(test_start(i),
                                       test_start(i) + test_size - 1)]]]

MaxSamples == 60

\* The number of rows of features_scaled.
InitSplit ==
    /\ models = InitialPredictor.models
    /\ feature_scaler = InitialPredictor.feature_scaler
    /\ target_scaler = InitialPredictor.target_scaler
    /\ ensemble_weights = InitialPredictor.ensemble_weights
    /\ req = NoRequest
    /\ resp = NoReply
    /\ prev = InitialPredictor
    /\ nCalls = 0
    /\ aqiIn = <<0, 0>>
    /\ aqiOut = <<>>
    /\ threads = <<>>
    /\ arg \in 0..MaxSamples
    /\ result = <<>>

\* The loop of line 449 draws its folds.
SplitRows ==
    /\ result = <<>>
    /\ result' = TimeSeriesSplit(arg)
    /\ UNCHANGED <<models, feature_scaler, target_scaler, ensemble_weights,
                   req, resp, prev, nCalls, aqiIn, aqiOut, threads, arg>>

NextSplit == SplitRows

SpecSplit == InitSplit /\ [][NextSplit]_vars

---------------------------------------------------------------------------
(* get_contributing_factors_safe on its own: a Series of features, each    *)
(* missing, NaN, infinite or a number, and a prediction.                   *)

Missing == [k |-> "missing", v |-> 0]

\* What each feature the rules read may hold: temperature in degrees,
\* humidity in percent, pm25_ma_24 and the prediction in thousandths.
FeatureChoices ==
    [pm25_ma_24 : {Missing, NaN, Num(0), Num(10000), PosInf},
     is_morning_rush : {Missing, NaN, Num(0), Num(1)},
     temperature : {Missing, NaN, Num(20), Num(35), PosInf, NegInf},
     humidity : {Missing, NaN, Num(50), Num(20), PosInf, NegInf},
     is_dry_season : {Missing, Num(0), Num(1)}]

\* A Series holding the features that are there, and a prediction.
InitFactors ==
    /\ models = InitialPredictor.models
    /\ feature_scaler = InitialPredictor.feature_scaler
    /\ target_scaler = InitialPredictor.target_scaler
    /\ ensemble_weights = InitialPredictor.ensemble_weights
    /\ req = NoRequest
    /\ resp = NoReply
    /\ prev = InitialPredictor
    /\ nCalls = 0
    /\ aqiIn = <<0, 0>>
    /\ aqiOut = <<>>
    /\ threads = <<>>
    /\ arg \in {[features |-> [f \in {g \in DOMAIN c : c[g] # Missing} |-> c[f]],
                  prediction |-> x] :
                    c \in FeatureChoices, x \in {5000, 20000}}
    /\ result = <<>>

\* get_contributing_factors_safe is called on the row.
ExplainRow ==
    /\ result = <<>>
    /\ result' = [factors |->
                      get_contributing_factors_safe(arg.features, arg.prediction)]
    /\ UNCHANGED <<models, feature_scaler, target_scaler, ensemble_weights,
                   req, resp, prev, nCalls, aqiIn, aqiOut, threads, arg>>

NextFactors == ExplainRow

SpecFactors == InitFactors /\ [][NextFactors]_vars

---------------------------------------------------------------------------
(* Properties *)

Answered == resp # NoReply

\* The state a successful train_model leaves: both estimators and both
\* scalers fitted, all by the same call.
FullyTrained(p) ==
    /\ \A v \in Variants : p.models[v].st = "fitted"
    /\ p.feature_scaler.st = "fitted"
    /\ p.target_scaler.st = "fitted"
    /\ \A v \in Variants : p.models[v].by = p.feature_scaler.by
    /\ p.target_scaler.by = p.feature_scaler.by

\* The forecast of the call served ran on a predictor left by a successful
\* train_model.
ForecastAfterTraining ==
    /\ Answered
    /\ \/ req.op = "predict" /\ FullyTrained(prev)
       \/ req.op = "POST /predict" /\ resp.train.ok

\* The input is valid: enough records with every required column, an ISO
\* timestamp and a pm25 that is not null in the last one.
ValidInput(d) ==
    /\ d.n >= 48
    /\ d.colsOk
    /\ d.tsIso
    /\ d.lastPm.k # "null"

FailsAfterAppend(r) ==
    r.pp.faultKind = "after_append" /\ r.pp.faultAt \in 1..Min2(r.hours_ahead, 24)

FailsBeforeAppend(r) ==
    r.pp.faultKind = "before_append" /\ r.pp.faultAt \in 1..Min2(r.hours_ahead, 24)

\* C1: on valid input of at least 48 observations and for every horizon
\* H >= 1, predict after a successful train_model returns exactly min(H, 24)
\* points, the k-th with hour_ahead k and a timestamp k hours after the last
\* input record's (no step raising once its point is appended).
C1_ForecastShape ==
    (ForecastAfterTraining /\ ValidInput(req.data) /\ req.hours_ahead >= 1
        /\ ~FailsAfterAppend(req))
    => /\ resp.ok
       /\ Len(resp.predictions) = Min2(req.hours_ahead, 24)
       /\ \A k \in 1..Len(resp.predictions) :
            /\ resp.predictions[k].hour_ahead = k
            /\ resp.predictions[k].timestamp = req.data.lastTs + k

\* A direct predict with a horizon above 24 on a trained predictor, answered
\* with 24 points, the first of them a fallback point.
C1_Witness ==
    /\ ForecastAfterTraining
    /\ req.op = "predict"
    /\ ValidInput(req.data)
    /\ req.hours_ahead > 24
    /\ Len(resp.predictions) = 24
    /\ resp.predictions[1].confidence = 300
    /\ resp.predictions[2].confidence = 650

\* Step k of the forecast raised.
StepRaised(p, r, k) ==
    \/ p.feature_scaler.st # "fitted"
    \/ p.target_scaler.st # "fitted"
    \/ ~r.data.tsIso
    \/ r.pp.faultAt = k

IsFallbackPoint(pt, d, k) ==
    /\ pt.hour_ahead = k
    /\ pt.confidence = 300
    /\ pt.contributing_factors = <<>>
    /\ pt.modelVersion = "2.2-fallback"
    /\ d.lastPm.k = "num" => pt.predicted_pm25 = RoundDiv(d.lastPm.v, 10)

\* C2: a failure at a forecast step never truncates the forecast: the step
\* emits a fallback point for its hour (last known pm25, confidence 0.3, no
\* factors, version ending in -fallback) and the sequence keeps its full
\* length.
C2_StepFailureKeepsLength ==
    (Answered /\ req.op = "predict" /\ ~NoModels(prev)
        /\ prev.feature_scaler.st # "none" /\ PrepareError(req.data) = ""
        /\ req.hours_ahead >= 1)
    => /\ resp.ok
       /\ Len(resp.predictions) = Min2(req.hours_ahead, 24)
       /\ \A k \in 1..Len(resp.predictions) :
            StepRaised(prev, req, k)
                => IsFallbackPoint(resp.predictions[k], req.data, k)

\* Every variant is forced to fail at every step of a forecast on a trained
\* predictor, and nothing else fails.
AllVariantsFail ==
    /\ ForecastAfterTraining
    /\ req.pp.failing = Variants
    /\ ValidInput(req.data)
    /\ req.hours_ahead >= 1
    /\ ~FailsAfterAppend(req)
    /\ ~FailsBeforeAppend(req)

\* C3 as stated: with every variant failing at every step, predict returns
\* the full-length sequence and every point is a fallback point with
\* confidence 0.3.
C3_AllFallbackPoints ==
    AllVariantsFail
    => /\ resp.ok
       /\ Len(resp.predictions) = Min2(req.hours_ahead, 24)
       /\ \A k \in 1..Len(resp.predictions) :
            /\ resp.predictions[k].confidence = 300
            /\ resp.predictions[k].modelVersion = "2.2-fallback"

\* C3 as amended: with every variant failing at every step, predict returns
\* the full-length sequence of normal points built on the neutral scaled
\* prediction 0.5: version 2.2, pm25 the inverse-scaled and clamped 0.5,
\* confidence max(0.3, 0.7 - 0.05 (k - 1)).
C3_NeutralPoints ==
    AllVariantsFail
    => /\ resp.ok
       /\ Len(resp.predictions) = Min2(req.hours_ahead, 24)
       /\ \A k \in 1..Len(resp.predictions) :
            /\ resp.predictions[k].hour_ahead = k
            /\ resp.predictions[k].modelVersion = "2.2"
            /\ resp.predictions[k].confidence = Max2(300, 700 - 50 * (k - 1))
            /\ resp.predictions[k].predicted_pm25 =
                 RoundDiv(Max2(0, Min2(target_scaler.center
                                       + RoundDiv(target_scaler.scale, 2), 1000000)), 10)

\* A 24-step forecast with every variant failing, answered in full.
C3_Witness ==
    /\ AllVariantsFail
    /\ req.op = "predict"
    /\ Len(resp.predictions) = 24
    /\ resp.predictions[1].confidence = 700
    /\ resp.predictions[24].confidence = 300

\* C4: every point of a forecast has predicted_pm25 >= 0, predicted_aqi in
\* [0, 500] and confidence in [0.1, 0.95], whatever the raw input holds.
C4_PointRanges ==
    Answered
    => \A k \in 1..Len(resp.predictions) :
         /\ resp.predictions[k].predicted_pm25 >= 0
         /\ resp.predictions[k].predicted_aqi \in 0..5000
         /\ resp.predictions[k].confidence \in 100..950

RatEq(a, b) == RatLe(a, b) /\ RatLe(b, a)

\* C5: calculate_aqi is non-decreasing on [0, 1000], stays in [0, 500], and
\* AQI(0) = 0, AQI(12.0) = 50, AQI(35.4) = 100.
C5_AqiMonotone ==
    aqiOut # <<>>
    => /\ RatLe(aqiOut[1], aqiOut[2])
       /\ \A i \in 1..2 : RatLe(<<0, 1>>, aqiOut[i]) /\ RatLe(aqiOut[i], <<500, 1>>)
       /\ aqiIn[1] = 0 => RatEq(aqiOut[1], <<0, 1>>)
       /\ aqiIn[1] = 12000 => RatEq(aqiOut[1], <<50, 1>>)
       /\ aqiIn[1] = 35400 => RatEq(aqiOut[1], <<100, 1>>)

\* C6: POST /predict with fewer than 48 observations is rejected before any
\* training: train_model is not invoked and the predictor is left as it was.
C6_ShortInputRejected ==
    (Answered /\ req.op = "POST /predict" /\ req.data.n < 48)
    => /\ resp.status = 400
       /\ ~resp.ok
       /\ ~resp.train.invoked
       /\ Predictor = prev

\* A short POST /predict answered on a predictor that an earlier call trained.
C6_Witness ==
    /\ Answered
    /\ req.op = "POST /predict"
    /\ req.data.n = 47
    /\ FullyTrained(prev)
    /\ resp.status = 400

\* C7: train_model with fewer than 48 observations, called directly or
\* through POST /model/retrain, fails and replaces nothing.
C7_TrainerEnforcesMinimum ==
    (Answered /\ req.op \in {"train_model", "POST /model/retrain"} /\ req.data.n < 48)
    => /\ ~resp.ok
       /\ Predictor = prev

WeightSum(w) == RatAdd(w.rf, RatAdd(w.gb, w.lstm))

\* C8: after a successful train_model every ensemble weight is non-negative
\* and the weights sum to 1.
C8_WeightsNonNegativeSumOne ==
    (Answered /\ resp.train.invoked /\ resp.train.ok)
    => /\ \A k \in {"rf", "gb", "lstm"} : ensemble_weights[k][1] >= 0
       /\ WeightSum(ensemble_weights) = <<1, 1>>

\* C9: the sequence model being absent, a successful train_model gives it
\* no share: the weights of rf and gb sum to 1.
C9_AbsentVariantHasNoShare ==
    (Answered /\ resp.train.invoked /\ resp.train.ok)
    => /\ ensemble_weights.lstm[1] = 0
       /\ RatAdd(ensemble_weights.rf, ensemble_weights.gb) = <<1, 1>>

\* C10: when the final fit fails, train_model publishes nothing: what the
\* previous successful training left is unchanged.
C10_FailedFinalFitPublishesNothing ==
    (Answered /\ resp.train.invoked /\ resp.train.err = "Erreur entrainement final"
        /\ FullyTrained(prev))
    => /\ ~resp.train.ok
       /\ Predictor = prev

\* C13: train_model never raises: whatever the input and whichever stage
\* fails, it returns (True, summary with metrics, ensemble weights and top
\* features) or (False, a reason).
C13_TrainNeverRaises ==
    (Answered /\ resp.train.invoked)
    => /\ ~resp.train.raised
       /\ resp.train.ok =>
            /\ resp.train.summary.metrics \in {"computed", "default"}
            /\ resp.train.summary.top_features \in {"ranked", "empty"}
            /\ resp.train.summary.ensemble_weights = ensemble_weights
       /\ ~resp.train.ok => resp.train.err # ""

\* A training on too few rows for the three-fold split: the exception of the
\* splitter reaches the outer handler and comes back as a reason.
C13_Witness ==
    /\ Answered
    /\ resp.train.invoked
    /\ ~resp.train.ok
    /\ req.data.n = n_splits + 1
    /\ resp.train.err = "Cannot have number of splits greater than the number of samples"

\* C14: the horizon is clamped to [1, 24] at both ends: POST /predict with
\* hours_ahead <= 0 answers one point, with hours_ahead > 24 it answers 24.
C14_HorizonClampedBothEnds ==
    (Answered /\ req.op = "POST /predict" /\ ValidInput(req.data)
        /\ resp.train.ok /\ ~FailsAfterAppend(req))
    => /\ resp.ok
       /\ Len(resp.predictions) = Max2(1, Min2(req.hours_ahead, 24))

\* Two normal points of the forecast just answered, for consecutive hours.
ConsecutiveNormal(i, j) ==
    /\ resp.predictions[i].modelVersion = "2.2"
    /\ resp.predictions[j].modelVersion = "2.2"
    /\ resp.predictions[j].hour_ahead = resp.predictions[i].hour_ahead + 1

\* C20 as stated: on the normal path confidence strictly decreases from each
\* step h to the step h+1, for h in 1..24.
C20_ConfidenceStrictlyDecreases ==
    Answered
    => \A i, j \in 1..Len(resp.predictions) :
         ConsecutiveNormal(i, j)
            => resp.predictions[j].confidence < resp.predictions[i].confidence

\* C20 as amended: on the normal path confidence never increases: it drops
\* by 0.05 a step from 0.7 at step 1 to 0.3 at step 9 and stays at 0.3 for
\* the steps 9 to 24.
C20_ConfidenceDecreasesToFloor ==
    Answered
    => \A i, j \in 1..Len(resp.predictions) :
         ConsecutiveNormal(i, j)
            => IF resp.predictions[i].hour_ahead <= 8
               THEN resp.predictions[j].confidence = resp.predictions[i].confidence - 50
               ELSE /\ resp.predictions[i].confidence = 300
                    /\ resp.predictions[j].confidence = 300

\* A 24-point forecast of POST /predict, all on the normal path.
C20_Witness ==
    /\ Answered
    /\ req.op = "POST /predict"
    /\ Len(resp.predictions) = 24
    /\ \A k \in 1..24 : resp.predictions[k].modelVersion = "2.2"
    /\ resp.predictions[1].confidence = 700
    /\ resp.predictions[9].confidence = 300
    /\ resp.predictions[10].confidence = 300

\* C17: whatever a numeric column holds, all missing, +inf, -inf or NaN
\* included, the output of clean_infinite_values holds no infinite and no
\* NaN value.
C17_CleanOutputFinite ==
    (result # <<>> /\ result.fn = "clean_infinite_values")
    => /\ Len(result.col) = Len(arg.col)
       /\ \A i \in DOMAIN result.col : result.col[i].k = "num"

\* A column of nothing but NaN and infinities, cleaned.
C17_Witness ==
    /\ result # <<>>
    /\ result.fn = "clean_infinite_values"
    /\ Len(arg.col) = MaxRows
    /\ arg.col[1] = NaN
    /\ arg.col[2] = PosInf
    /\ \A i \in DOMAIN arg.col : arg.col[i].k # "num"

\* C18: after validate_input_data succeeds every row is inside the physical
\* ranges, whatever the raw values were.
C18_ValidatedInDomain ==
    (result # <<>> /\ result.fn = "validate_input_data")
    => \A i \in DOMAIN result.col :
         /\ result.col[i].k = "num"
         /\ result.col[i].v >= DomainOf(arg.name)[1]
         /\ result.col[i].v < DomainOf(arg.name)[2]

IsOrdered(data) == \A i, j \in DOMAIN data : i < j => data[i].ts < data[j].ts

\* C15: out-of-order input is sorted before every use: for every reordering
\* of a time-ordered input, train_model builds the same training pairs and
\* predict the same seed row, base timestamp and fallback value as for the
\* ordered input.
C15_OrderIndependent ==
    (result # <<>> /\ IsOrdered(arg[2]) /\ arg[1] \in Permuted(arg[2]))
    => /\ result[1].pairs = result[2].pairs
       /\ result[1].forecast = result[2].forecast

\* C16: no lookahead: two time-ordered inputs that agree on observations
\* 0..i get identical feature rows 0..i from prepare_features.
C16_NoLookahead ==
    (result # <<>> /\ IsOrdered(arg[1]) /\ IsOrdered(arg[2]))
    => \A i \in DOMAIN arg[1] :
         (\A j \in 1..i : arg[1][j] = arg[2][j])
            => \A j \in 1..i : result[1].rows[j] = result[2].rows[j]

\* C19: pm10 being zero in every row, the pm_ratio feature of every row is
\* pm25 / 1, the row's pm25 feature value.
C19_RatioIsPm25 ==
    (result # <<>> /\ \A i \in DOMAIN arg[1] : arg[1][i].pm10 = 0)
    => \A i \in DOMAIN result[1].rows :
         result[1].rows[i].pm_ratio = result[1].rows[i].pm25

\* A table whose first row holds the smallest pm25 and whose last row the
\* largest: both rows were moved by the percentile clips, ratio and pm25 alike.
C19_Witness ==
    /\ result # <<>>
    /\ IsOrdered(arg[1])
    /\ Len(arg[1]) = MaxRows
    /\ \A i \in DOMAIN arg[1] : arg[1][i].pm10 = 0
    /\ arg[1][1].pm25 = 10000
    /\ arg[1][MaxRows].pm25 = 40000
    /\ result[1].rows[1].pm_ratio > 10000
    /\ result[1].rows[MaxRows].pm_ratio < 40000

\* A request of SpecConc has answered a forecast.
ForecastAnswered(t) ==
    /\ threads # <<>>
    /\ threads[t].op = "POST /predict"
    /\ threads[t].pc = "answered"

\* Everything the forecast read was left by the completed training c.
ReadsFromOneTraining(r, c) ==
    /\ r.feature_scaler = [st |-> "fitted", by |-> c]
    /\ r.target_scaler = [st |-> "fitted", by |-> c]
    /\ r.rf = [st |-> "fitted", by |-> c]
    /\ r.gb = [st |-> "fitted", by |-> c]
    /\ r.w_rf = TrainedWeights(c).rf
    /\ r.w_gb = TrainedWeights(c).gb

\* C11: retraining replaces the predictor atomically: a predict that runs
\* while another request trains reads scalers, models and weights that all
\* come from one and the same completed training.
C11_AtomicReplacement ==
    \A t \in Threads :
        ForecastAnswered(t)
            => \E c \in Threads \cup {PriorCall} :
                   ReadsFromOneTraining(threads[t].reads, c)

\* C12: training+prediction cycles are serialized: the forecast of each of
\* two concurrent requests is computed with the scalers, models and weights
\* fitted from that request's own data.
C12_SerializedCycles ==
    \A t \in Threads :
        ForecastAnswered(t) => ReadsFromOneTraining(threads[t].reads, t)

\* C21: every successful train_model call, with use_ensemble true or false,
\* leaves the weights derived from that call's fold scores: the averages
\* the call reports, normalised, and not what the predictor held before.
C21_WeightsFromThisCall ==
    (Answered /\ resp.train.invoked /\ resp.train.ok)
    => ensemble_weights =
           AdjustWeights(prev.ensemble_weights, resp.train.summary.model_scores, TRUE)

\* The score fold i should leave for variant v: the neutral 0.5 when v's own
\* fit or predict raised in that fold, and the score r2_score gave otherwise.
FoldScoreOf(o, v) ==
    IF (o.k = "rf_fails" /\ v = "rf") \/ (o.k = "gb_fails" /\ v = "gb")
    THEN NeutralScore
    ELSE <<o[v], 10>>

\* C22: in the cross-validation a variant that raises in a fold gets 0.5 for
\* that fold and training goes on; after the three folds each of rf and gb
\* holds exactly one score per fold, the other variant's real score being
\* neither replaced nor joined by an extra one.
C22_OneScorePerFold ==
    (Answered /\ resp.train.invoked /\ resp.train.ok)
    => \A v \in Variants :
           /\ Len(resp.train.scores[v]) = n_splits
           /\ \A i \in 1..n_splits :
                  resp.train.scores[v][i] = FoldScoreOf(req.tp.folds[i], v)

\* C23: the cross-validation split is time-ordered with three folds: in
\* every fold the training indices are the contiguous block 0..k-1 for some
\* k >= 1, and every validation index is greater than every training
\* index, so no training row is later than a validation row.
C23_SplitTimeOrdered ==
    (result # <<>> /\ ~result.raised)
    => /\ Len(result.folds) = 3
       /\ \A i \in 1..Len(result.folds) :
              LET f == result.folds[i]
              IN  /\ Len(f.train_idx) >= 1
                  /\ Len(f.val_idx) >= 1
                  /\ f.train_idx = Indices(0, Len(f.train_idx) - 1)
                  /\ \A a \in DOMAIN f.train_idx, b \in DOMAIN f.val_idx :
                         f.train_idx[a] < f.val_idx[b]

\* The split train_model makes of the 47 training rows of a 48-observation
\* request has been drawn.
C23_Witness ==
    /\ arg = min_data_points - 1
    /\ result # <<>>
    /\ ~result.raised
    /\ result.folds[1].train_idx = Indices(0, 13)
    /\ result.folds[3].val_idx = Indices(36, 46)

\* A predict call on a trained predictor in which nothing raises in any
\* step and at least one variant returns a prediction.
SomeVariantAnswers ==
    /\ Answered
    /\ req.op = "predict"
    /\ FullyTrained(prev)
    /\ ValidInput(req.data)
    /\ req.hours_ahead >= 1
    /\ ~FailsAfterAppend(req)
    /\ ~FailsBeforeAppend(req)
    /\ \E v \in Variants : VariantAnswers(prev, req.pp, v)

\* The weighted sum of the predictions of the variants that answered.
WeightedSum(p, pp) ==
    RatSum([i \in 1..2 |->
        LET v == <<"rf", "gb">>[i]
        IN  IF VariantAnswers(p, pp, v)
            THEN RatMul(<<pp.out[v], 10>>, p.ensemble_weights[v])
            ELSE <<0, 1>>])

\* C24: the neutral 0.5 stands in only when every variant failed: whenever
\* at least one variant returned a finite prediction, every point of the
\* forecast is built on the weighted sum of the successful variants'
\* predictions, also when that sum is exactly 0.
C24_NeutralOnlyWhenAllFail ==
    SomeVariantAnswers
    => /\ resp.ok
       /\ \A k \in 1..Len(resp.predictions) :
              resp.predictions[k].predicted_pm25 =
                  RoundDiv(InversePm25(prev.target_scaler,
                                       WeightedSum(prev, req.pp)), 10)

\* A predict call on a trained predictor with valid input in which no step
\* raises: every step appends one point and one synthesized row.
CleanForecast ==
    /\ Answered
    /\ req.op = "predict"
    /\ FullyTrained(prev)
    /\ ValidInput(req.data)
    /\ req.hours_ahead >= 1
    /\ ~FailsAfterAppend(req)
    /\ ~FailsBeforeAppend(req)

\* The number of real rows the table starts with.
RealRows == Len(req.data.earlier) + 1

\* C25: each synthesized row has the pm25 and aqi the step predicted, the
\* previous row's hour plus one modulo 24, and the previous row's dayOfWeek,
\* advanced by one modulo 7 exactly when the hour wraps past 24; over a
\* 24-step forecast dayOfWeek advances exactly once.
C25_HourAndDayAdvance ==
    CleanForecast
    => LET T == resp.prediction_features
       IN  /\ Len(T) = RealRows + Len(resp.predictions)
           /\ \A k \in 1..Len(resp.predictions) :
                  LET new == T[RealRows + k]
                      old == T[RealRows + k - 1]
                  IN  /\ RoundDiv(new.pm25, 10) = resp.predictions[k].predicted_pm25
                      /\ RoundAqi(new.aqi) = resp.predictions[k].predicted_aqi
                      /\ new.hour = (old.hour + 1000) % 24000
                      /\ new.dayOfWeek =
                            IF old.hour + 1000 >= 24000
                            THEN (old.dayOfWeek + 1) % 7
                            ELSE old.dayOfWeek
           /\ Len(resp.predictions) = 24
                => T[Len(T)].dayOfWeek = (T[RealRows].dayOfWeek + 1) % 7

\* The features a synthesized row may differ in from the row before it.
Synthesized == {"pm25", "aqi", "hour", "dayOfWeek", "pm25_ma_3", "pm25_ma_6"}

\* The mean of the last `window` pm25 values of the rows T[1..upto].
TailMean(T, upto, window) ==
    LET first == Max2(1, upto - window + 1)
    IN  Rat(SumSeq([i \in 1..(upto - first + 1) |-> T[first + i - 1].pm25]),
            upto - first + 1)

\* C26: synthesizing a row changes only pm25, aqi, hour, dayOfWeek and the
\* 3- and 6-point rolling means, these being the averages of the last 3 and
\* 6 pm25 values of the history with the new prediction; every other
\* feature is the previous row's and the real rows are left as they were.
C26_OnlyCheapFeaturesChange ==
    CleanForecast
    => LET T == resp.prediction_features
       IN  /\ Len(T) = RealRows + Len(resp.predictions)
           /\ SubSeq(T, 1, RealRows) = Append(req.data.earlier, req.data.row)
           /\ \A k \in (RealRows + 1)..Len(T) :
                  /\ DOMAIN T[k] = DOMAIN T[k - 1]
                  /\ \A f \in DOMAIN T[k] \ Synthesized : T[k][f] = T[k - 1][f]
                  /\ T[k].pm25_ma_3 = TailMean(T, k, 3)
                  /\ T[k].pm25_ma_6 = TailMean(T, k, 6)

\* A 24-step forecast has synthesized its rows; the prediction differs from
\* the last real pm25, so that the rolling means move while the lag stays.
C26_Witness ==
    /\ CleanForecast
    /\ Len(resp.predictions) = 24
    /\ LET T == resp.prediction_features
       IN  /\ T[RealRows + 1].pm25 # T[RealRows].pm25
           /\ T[RealRows + 1].pm25_ma_3 # T[RealRows].pm25_ma_3
           /\ T[Len(T)].pm25_lag_1 = T[RealRows].pm25_lag_1
           /\ T[Len(T)].hour = T[RealRows].hour

\* The feature is there and is a finite number.
Finite(features, name) == name \in DOMAIN features /\ features[name].k = "num"

\* The rules of the factor list in their priority order, each with the
\* factor it contributes when its feature is present, finite and past the
\* rule's threshold.
TriggeredRules(features, prediction) ==
    LET rule(on, factor, impact) ==
            IF on THEN <<[factor |-> factor, impact |-> impact]>> ELSE <<>>
    IN  rule(Finite(features, "pm25_ma_24")
                /\ 10 * prediction > 11 * features.pm25_ma_24.v,
             "Tendance croissante", "high")
        \o rule(Finite(features, "is_morning_rush")
                    /\ features.is_morning_rush.v = 1,
                "Heure de pointe matinale", "medium")
        \o rule(Finite(features, "temperature") /\ features.temperature.v > 30,
                "Temperature elevee", "medium")
        \o rule(Finite(features, "humidity") /\ features.humidity.v < 30,
                "Air sec", "medium")
        \o rule(Finite(features, "is_dry_season") /\ features.is_dry_season.v = 1,
                "Saison seche", "high")

\* C27: get_contributing_factors_safe returns at most three factors, and
\* they are the first (up to three) triggered rules in the order trend,
\* morning rush, temperature, humidity, dry season; a rule whose feature is
\* missing or not finite contributes nothing and blocks no later rule.
C27_FirstThreeTriggeredRules ==
    result # <<>>
    => LET triggered == TriggeredRules(arg.features, arg.prediction)
       IN  /\ Len(result.factors) <= 3
           /\ result.factors = SubSeq(triggered, 1, Min2(3, Len(triggered)))

\* The row step k of the forecast answered takes as model input.
InputRow(k) == resp.prediction_features[RealRows + k - 1]

\* C28: in every row a forecast takes as model input, real or synthesized,
\* is_morning_rush, is_evening_rush, is_night and is_weekend are those of the
\* row's hour and dayOfWeek, and the factor 'active morning rush' is
\* reported only at steps whose row has its hour in 6..9.
C28_TimeFeaturesAgree ==
    CleanForecast
    => \A k \in 1..Len(resp.predictions) :
           /\ \A f \in DOMAIN TimeFeatures(0, 0) :
                  InputRow(k)[f]
                      = TimeFeatures(InputRow(k).hour, InputRow(k).dayOfWeek)[f]
           /\ (\E i \in DOMAIN resp.predictions[k].contributing_factors :
                  resp.predictions[k].contributing_factors[i].factor
                      = "Heure de pointe matinale")
              => (InputRow(k).hour >= 6000 /\ InputRow(k).hour <= 9000)

\* C29: predict forecasts only from a fully trained state: on a predictor no
\* train_model has trained it returns 'Modeles non entraines' and no
\* points, and on a predictor a failed train_model left with unfitted or
\* partially fitted models or scalers it returns no forecast.
C29_ForecastOnlyWhenTrained ==
    (Answered /\ req.op = "predict")
    => /\ prev = InitialPredictor
            => (~resp.ok /\ resp.err = "Modeles non entraines"
                    /\ resp.predictions = <<>>)
       /\ ~FullyTrained(prev) => (~resp.ok /\ resp.predictions = <<>>)

====
